---- MODULE Spec2Model ----
(***************************************************************************)
(* Adaptive voxel path tracer: the adaptive performance controller         *)
(* (src/renderer/performance.rs) and the sparse voxel octree                *)
(* (src/octree/mod.rs).                                                     *)
(*                                                                          *)
(* f32 quantities are fixed-point integers:                                 *)
(*   - a step size s is the integer s * StepScale (0.02 is 200),          *)
(*   - a frame time t (seconds) is the integer t * TicksPerSecond,          *)
(*   - a frame rate is an integer number of frames per second.              *)
(* Comparisons of quotients are cross-multiplied, products are truncated.   *)
(***************************************************************************)
EXTENDS Integers, Sequences, FiniteSets, TLC

\* ------------------------------------------------------------------ units
StepScale == 10 * 1000
TicksPerSecond == 6 * 1000

\* ------------------------------------------------- controller constants
\* current_voxel_size: 0.02 in PerformanceController::new
InitStep == 200
\* .max(0.005) in the decrease branch
MinStep == 50
\* .min(0.05) in the emergency and increase branches
MaxStep == 500
\* history_size: 10
HistorySize == 10
\* frame_time_history.len() < 3
MinSamples == 3
\* stable_frames < 10 : adjustment_factor = 0.5
DampFrames == 10
\* stable_frames > 15 gates the decrease branch
StableGate == 15
\* current_fps.max(10.0)
FpsFloor == 10

\* ------------------------------------------------------- model bounds
\* update is not called any more once stable_frames exceeds this
MaxStable == 18

\* target frame rates the controller is constructed with (frames per second)
Targets == {5, 12, 20}
\* frame times fed to update, in ticks, for a target T: a fast frame (5 x T
\* frames per second) and a slow frame (instantaneous rate 50% below T)
FastFrame(T) == TicksPerSecond \div (5 * T)
HalfRateFrame(T) == (2 * TicksPerSecond) \div T
FrameTimes(T) == {FastFrame(T), HalfRateFrame(T)}

\* Frame times near the target: 1.25 x target and 0.97 x target frames per second,
\* the second below the target and above the emergency threshold.
BriskFrame(T) == (4 * TicksPerSecond) \div (5 * T)
MildFrame(T) == (100 * TicksPerSecond) \div (97 * T)
NearTargetFrameTimes(T) == {BriskFrame(T), MildFrame(T)}

\* Slow frames: half and a quarter of the target rate, both below 0.95 x target.
QuarterRateFrame(T) == (4 * TicksPerSecond) \div T
SlowFrameTimes(T) == {HalfRateFrame(T), QuarterRateFrame(T)}

DirDecrease == 0 - 1
DirNone == 0
DirIncrease == 1

NoneRet == [some |-> FALSE, val |-> 0]
SomeRet(v) == [some |-> TRUE, val |-> v]

VARIABLES
    target_framerate,
    current_voxel_size,
    frame_time_history,
    last_adjustment_direction,
    stable_frames,
    ret,        \* what the last update call returned
    branch,     \* which branch the last update call took
    pre,        \* step size, stable_frames, direction, window length and
                \* none_run before the last call
    none_run,   \* number of consecutive most recent update calls that returned None
    octree,     \* the Octree: root node, max_depth, base_voxel_size
    last_op,    \* the last insert call: position, data, and what it did
    tracked,    \* one position inside the root cube, followed through the run
    tracked_last,       \* data of the most recent insert at tracked
    tracked_cell_last,  \* data of the most recent insert into tracked's finest cell
    lod_query,          \* the last sample_voxel call: arguments, level, result
    performance_buffer, \* the renderer's uniform: base_voxel_size, frame_time
    frame_count,        \* the renderer's count of presented frames
    surface_errors,     \* number of render calls that returned at the surface error
    step_query,         \* the last get_step_size call: arguments and result
    adjustments,        \* number of adjusting calls in a run near the target
    scene_step,         \* build_cornell_box_scene: the last grid point visited
    voxel_count         \* build_cornell_box_scene: its count of inserted voxels

ctlVars == <<target_framerate, current_voxel_size, frame_time_history,
             last_adjustment_direction, stable_frames, ret, branch, pre, none_run>>

octVars == <<octree, last_op, tracked, tracked_last, tracked_cell_last, lod_query>>

rndVars == <<performance_buffer, frame_count, surface_errors>>

lodVars == <<step_query, adjustments>>

sceneVars == <<scene_step, voxel_count>>

vars == <<ctlVars, octVars, rndVars, lodVars, sceneVars>>

Min(a, b) == IF a < b THEN a ELSE b
Max(a, b) == IF a > b THEN a ELSE b

RECURSIVE SeqSum(_)
SeqSum(s) == IF s = <<>> THEN 0 ELSE Head(s) + SeqSum(Tail(s))

\* A version of the window that evicts as soon as history_size is reached.
PushHistoryEvictEarly(h, ft) ==
    LET pushed == Append(h, ft)
    IN IF Len(pushed) >= HistorySize THEN Tail(pushed) ELSE pushed

\* push_back then pop_front when longer than history_size
PushHistory(h, ft) ==
    LET pushed == Append(h, ft)
    IN IF Len(pushed) > HistorySize THEN Tail(pushed) ELSE pushed

\* current_fps < target_framerate * 0.95, with current_fps = 1.0 / frame_time
IsEmergency(T, ft) == 100 * TicksPerSecond < 95 * T * ft

\* panic_multiplier.min(2.0) as a fraction <<num, den>>,
\* panic_multiplier = target_framerate / current_fps.max(10.0)
PanicMultiplier(T, ft) ==
    LET frac == IF TicksPerSecond >= FpsFloor * ft
                THEN <<T * ft, TicksPerSecond>>
                ELSE <<T, FpsFloor>>
    IN IF frac[1] >= 2 * frac[2] THEN <<2, 1>> ELSE frac

EmergencyStep(cur, T, ft) ==
    LET m == PanicMultiplier(T, ft)
    IN Min((cur * m[1]) \div m[2], MaxStep)

\* adjustment_factor in halves: 1 is 0.5, 2 is 1.0
AdjustmentFactor(stable) == IF stable < DampFrames THEN 1 ELSE 2

\* avg_fps < target_framerate, avg_fps = 1.0 / (sum / len)
AvgBelowTarget(T, h) == Len(h) * TicksPerSecond < T * SeqSum(h)

\* avg_fps > target_framerate * 1.2
AvgWellAbove(T, h) == 10 * Len(h) * TicksPerSecond > 12 * T * SeqSum(h)

\* A version without the smaller increment after a decrease.
IncreaseStepNoReversalDamping(cur, dir, stable) ==
    LET af == AdjustmentFactor(stable)
    IN Min((cur * (20 + 3 * af)) \div 20, MaxStep)

IncreaseStep(cur, dir, stable) ==
    LET af == AdjustmentFactor(stable)
    IN IF dir = DirDecrease
       THEN Min((cur * (20 + af)) \div 20, MaxStep)
       ELSE Min((cur * (20 + 3 * af)) \div 20, MaxStep)

\* A version of the decrease without .max(0.005).
DecreaseStepNoFloor(cur, stable) ==
    LET af == AdjustmentFactor(stable)
    IN (cur * (20 - af)) \div 20

DecreaseStep(cur, stable) ==
    LET af == AdjustmentFactor(stable)
    IN Max((cur * (20 - af)) \div 20, MinStep)

\* Versions of BranchOf with a slip in one of its conditions.
\* The emergency test reads the window average instead of the current frame.
BranchOfAvgEmergency(T, h, ft, stable) ==
    IF Len(h) < MinSamples THEN "insufficient"
    ELSE IF 100 * Len(h) * TicksPerSecond < 95 * T * SeqSum(h) THEN "emergency"
    ELSE IF AvgBelowTarget(T, h) THEN "increase"
    ELSE IF AvgWellAbove(T, h) /\ stable > StableGate THEN "decrease"
    ELSE "stable"

\* The stability gate is stable_frames >= 15.
BranchOfGateOffByOne(T, h, ft, stable) ==
    IF Len(h) < MinSamples THEN "insufficient"
    ELSE IF IsEmergency(T, ft) THEN "emergency"
    ELSE IF AvgBelowTarget(T, h) THEN "increase"
    ELSE IF AvgWellAbove(T, h) /\ stable >= StableGate THEN "decrease"
    ELSE "stable"

\* The warm-up needs 2 samples instead of 3.
BranchOfShortWarmUp(T, h, ft, stable) ==
    IF Len(h) < MinSamples - 1 THEN "insufficient"
    ELSE IF IsEmergency(T, ft) THEN "emergency"
    ELSE IF AvgBelowTarget(T, h) THEN "increase"
    ELSE IF AvgWellAbove(T, h) /\ stable > StableGate THEN "decrease"
    ELSE "stable"

\* The emergency test comes after the tests of the average.
BranchOfEmergencyLast(T, h, ft, stable) ==
    IF Len(h) < MinSamples THEN "insufficient"
    ELSE IF AvgBelowTarget(T, h) THEN "increase"
    ELSE IF AvgWellAbove(T, h) /\ stable > StableGate THEN "decrease"
    ELSE IF IsEmergency(T, ft) THEN "emergency"
    ELSE "stable"

\* The stability gate is stable_frames > 5.
BranchOfEarlyGate(T, h, ft, stable) ==
    IF Len(h) < MinSamples THEN "insufficient"
    ELSE IF IsEmergency(T, ft) THEN "emergency"
    ELSE IF AvgBelowTarget(T, h) THEN "increase"
    ELSE IF AvgWellAbove(T, h) /\ stable > StableGate \div 3 THEN "decrease"
    ELSE "stable"

\* The branch update takes, from the state after the push
BranchOf(T, h, ft, stable) ==
    IF Len(h) < MinSamples THEN "insufficient"
    ELSE IF IsEmergency(T, ft) THEN "emergency"
    ELSE IF AvgBelowTarget(T, h) THEN "increase"
    ELSE IF AvgWellAbove(T, h) /\ stable > StableGate THEN "decrease"
    ELSE "stable"

CtlInit ==
    /\ target_framerate \in Targets
    /\ current_voxel_size = InitStep
    /\ frame_time_history = <<>>
    /\ last_adjustment_direction = DirNone
    /\ stable_frames = 0
    /\ ret = NoneRet
    /\ branch = "new"
    /\ pre = [step |-> InitStep, stable |-> 0, dir |-> DirNone, len |-> 0,
              none_run |-> 0]
    /\ none_run = 0

Adjusting == {"emergency", "increase", "decrease"}

\* current_voxel_size after a call that takes branch b
StepAfter(b, cur, T, ft, dir, stable) ==
    CASE b = "emergency" -> EmergencyStep(cur, T, ft)
      [] b = "increase" -> IncreaseStep(cur, dir, stable)
      [] b = "decrease" -> DecreaseStep(cur, stable)
      [] OTHER -> cur

\* A version of the direction that a stable frame clears.
DirectionAfterClearedWhenStable(b, dir) ==
    CASE b = "emergency" -> DirIncrease
      [] b = "increase" -> DirIncrease
      [] b = "decrease" -> DirDecrease
      [] b = "stable" -> DirNone
      [] OTHER -> dir

\* last_adjustment_direction after a call that takes branch b
DirectionAfter(b, dir) ==
    CASE b = "emergency" -> DirIncrease
      [] b = "increase" -> DirIncrease
      [] b = "decrease" -> DirDecrease
      [] OTHER -> dir

\* A version of stable_frames that also counts the warm-up calls.
StableAfterCountsWarmUp(b, stable) ==
    CASE b \in Adjusting -> 0
      [] OTHER -> stable + 1

\* stable_frames after a call that takes branch b
StableAfter(b, stable) ==
    CASE b \in Adjusting -> 0
      [] b = "stable" -> stable + 1
      [] OTHER -> stable

\* A version of the return value that signals a change only when the number
\* changed.
UpdateReturnIfChanged(b, old, new) ==
    IF b \in Adjusting /\ new # old THEN SomeRet(new) ELSE NoneRet

\* The value update returns: Some(self.current_voxel_size) on the three
\* adjusting branches, None on the two others
UpdateReturn(b, old, new) ==
    IF b \in Adjusting THEN SomeRet(new) ELSE NoneRet

Update(ft) ==
    LET h == PushHistory(frame_time_history, ft)
        b == BranchOf(target_framerate, h, ft, stable_frames)
        s == StepAfter(b, current_voxel_size, target_framerate, ft,
                       last_adjustment_direction, stable_frames)
    IN /\ stable_frames <= MaxStable
       /\ frame_time_history' = h
       /\ current_voxel_size' = s
       /\ last_adjustment_direction' = DirectionAfter(b, last_adjustment_direction)
       /\ stable_frames' = StableAfter(b, stable_frames)
       /\ ret' = UpdateReturn(b, current_voxel_size, s)
       /\ branch' = b
       /\ pre' = [step |-> current_voxel_size, stable |-> stable_frames,
                  dir |-> last_adjustment_direction, len |-> Len(frame_time_history),
                  none_run |-> none_run]
       /\ none_run' = IF ret'.some THEN 0 ELSE none_run + 1
       /\ UNCHANGED target_framerate

UpdateCall == \E ft \in FrameTimes(target_framerate) : Update(ft)

CtlNext == UpdateCall

\* every frame slow
UpdateSlowCall == \E ft \in SlowFrameTimes(target_framerate) : Update(ft)

CtlSlowNext == UpdateSlowCall

\* the first PrefixCalls frames fast or slow, every later frame fast
PrefixCalls == 4

UpdatePrefixCall ==
    /\ branch = "new" \/ pre.len + 1 < PrefixCalls
    /\ \E ft \in FrameTimes(target_framerate) : Update(ft)

UpdateFastCall ==
    /\ branch # "new" /\ pre.len + 1 >= PrefixCalls
    /\ Update(FastFrame(target_framerate))

CtlFastNext == UpdatePrefixCall \/ UpdateFastCall

MaxAdjustments == 3

UpdateNearTargetCall ==
    /\ adjustments < MaxAdjustments
    /\ \E ft \in NearTargetFrameTimes(target_framerate) : Update(ft)
    /\ adjustments' = IF ret'.some THEN adjustments + 1 ELSE adjustments

CtlNearTargetNext == UpdateNearTargetCall

\* ================================================================ octree
\* ------------------------------------------------------- model bounds
\* max_depth the index is constructed with
MaxDepth == 2

RECURSIVE Pow2(_)
Pow2(n) == IF n = 0 THEN 1 ELSE 2 * Pow2(n - 1)

\* half_size of the root, in grid units: a node at max_depth has half_size 2
RootHalf == Pow2(MaxDepth + 1)
RootCenter == <<0, 0, 0>>

Abs(x) == IF x < 0 THEN 0 - x ELSE x

\* VoxelData::empty(), VoxelData::solid(color), VoxelData::emissive(color, emission);
\* colours and emission in hundredths
EmptyVoxel ==
    [color |-> <<0, 0, 0>>, density |-> 0, emission |-> <<0, 0, 0>>, material_type |-> 0]
SolidVoxel(c) ==
    [color |-> c, density |-> 1, emission |-> <<0, 0, 0>>, material_type |-> 0]
EmissiveVoxel(c, e) ==
    [color |-> c, density |-> 1, emission |-> e, material_type |-> 3]

\* Option<VoxelData>
NoData == [some |-> FALSE, val |-> EmptyVoxel]
SomeData(d) == [some |-> TRUE, val |-> d]

\* Option<Box<[OctreeNode; 8]>>: <<>> is None
NoChildren == <<>>

\* OctreeNode::new
OctreeNodeNew(center, half_size, level) ==
    [center |-> center, half_size |-> half_size, children |-> NoChildren,
     voxel_data |-> NoData, level |-> level]

\* bit b (0, 1, 2) of the child number i (0 .. 7)
Bit(i, b) == (i \div Pow2(b)) % 2

\* A version of subdivide whose offsets read the bits in the opposite order
\* (bit 2 for X, bit 0 for Z).
SubdivideReversedBits(node) ==
    IF node.children # NoChildren THEN node
    ELSE LET new_half_size == node.half_size \div 2
             new_level == node.level + 1
             offset(i) == [a \in 1 .. 3 |->
                              IF Bit(i, 3 - a) # 0 THEN new_half_size ELSE 0 - new_half_size]
         IN [node EXCEPT !.children =
                [k \in 1 .. 8 |->
                    OctreeNodeNew([a \in 1 .. 3 |-> node.center[a] + offset(k - 1)[a]],
                                  new_half_size, new_level)]]

\* A version of subdivide without the early return: it builds eight fresh
\* children every time.
SubdivideAlways(node) ==
    LET new_half_size == node.half_size \div 2
        new_level == node.level + 1
        offset(i) == [a \in 1 .. 3 |->
                         IF Bit(i, a - 1) # 0 THEN new_half_size ELSE 0 - new_half_size]
    IN [node EXCEPT !.children =
           [k \in 1 .. 8 |->
               OctreeNodeNew([a \in 1 .. 3 |-> node.center[a] + offset(k - 1)[a]],
                             new_half_size, new_level)]]

\* OctreeNode::subdivide
Subdivide(node) ==
    IF node.children # NoChildren THEN node
    ELSE LET new_half_size == node.half_size \div 2
             new_level == node.level + 1
             offset(i) == [a \in 1 .. 3 |->
                              IF Bit(i, a - 1) # 0 THEN new_half_size ELSE 0 - new_half_size]
         IN [node EXCEPT !.children =
                [k \in 1 .. 8 |->
                    OctreeNodeNew([a \in 1 .. 3 |-> node.center[a] + offset(k - 1)[a]],
                                  new_half_size, new_level)]]

\* A version of get_child_index that sends a coordinate equal to the centre to
\* the positive side.
GetChildIndexInclusive(node, position) ==
    (IF position[1] >= node.center[1] THEN 1 ELSE 0)
    + (IF position[2] >= node.center[2] THEN 2 ELSE 0)
    + (IF position[3] >= node.center[3] THEN 4 ELSE 0)

\* OctreeNode::get_child_index, used by sample_recursive
GetChildIndex(node, position) ==
    (IF position[1] > node.center[1] THEN 1 ELSE 0)
    + (IF position[2] > node.center[2] THEN 2 ELSE 0)
    + (IF position[3] > node.center[3] THEN 4 ELSE 0)

\* the child selection written out in insert_recursive (the same three tests)
InsertChildIndex(node, position) ==
    (IF position[1] > node.center[1] THEN 1 ELSE 0)
    + (IF position[2] > node.center[2] THEN 2 ELSE 0)
    + (IF position[3] > node.center[3] THEN 4 ELSE 0)

\* A version of contains without .abs()
ContainsNoAbs(node, position) ==
    \A a \in 1 .. 3 : position[a] - node.center[a] <= node.half_size

\* OctreeNode::contains
Contains(node, position) ==
    \A a \in 1 .. 3 : Abs(position[a] - node.center[a]) <= node.half_size

\* Octree::new
OctreeNew(center, half_size, max_depth) ==
    [root |-> OctreeNodeNew(center, half_size, 0),
     max_depth |-> max_depth,
     base_voxel_size |-> (half_size * 2) \div Pow2(max_depth)]

\* A version of insert_recursive that stores the sample in the first node on the
\* path that is free (no sample, no children) and splits a node on collision.
RECURSIVE InsertRecursiveSplitOnCollision(_, _, _, _, _)
InsertRecursiveSplitOnCollision(node, position, data, depth, max_depth) ==
    IF ~Contains(node, position) THEN node
    ELSE IF depth >= max_depth \/ (node.children = NoChildren /\ ~node.voxel_data.some)
    THEN [node EXCEPT !.voxel_data = SomeData(data)]
    ELSE LET n == Subdivide(node)
             index == InsertChildIndex(n, position)
         IN [n EXCEPT !.children[index + 1] =
                InsertRecursiveSplitOnCollision(@, position, data, depth + 1, max_depth)]

\* A version of insert_recursive that keeps the first sample of a node.
RECURSIVE InsertRecursiveKeepFirst(_, _, _, _, _)
InsertRecursiveKeepFirst(node, position, data, depth, max_depth) ==
    IF ~Contains(node, position) THEN node
    ELSE IF depth >= max_depth
    THEN IF node.voxel_data.some THEN node
         ELSE [node EXCEPT !.voxel_data = SomeData(data)]
    ELSE LET n == Subdivide(node)
             index == InsertChildIndex(n, position)
         IN [n EXCEPT !.children[index + 1] =
                InsertRecursiveKeepFirst(@, position, data, depth + 1, max_depth)]

\* A version of insert_recursive that descends one level further.
RECURSIVE InsertRecursiveOneDeeper(_, _, _, _, _)
InsertRecursiveOneDeeper(node, position, data, depth, max_depth) ==
    IF ~Contains(node, position) THEN node
    ELSE IF depth > max_depth
    THEN [node EXCEPT !.voxel_data = SomeData(data)]
    ELSE LET n == Subdivide(node)
             index == InsertChildIndex(n, position)
         IN [n EXCEPT !.children[index + 1] =
                InsertRecursiveOneDeeper(@, position, data, depth + 1, max_depth)]

\* Octree::insert_recursive
RECURSIVE InsertRecursive(_, _, _, _, _)
InsertRecursive(node, position, data, depth, max_depth) ==
    IF ~Contains(node, position) THEN node
    ELSE IF depth >= max_depth
    THEN [node EXCEPT !.voxel_data = SomeData(data)]
    ELSE LET n == Subdivide(node)
             index == InsertChildIndex(n, position)
         IN [n EXCEPT !.children[index + 1] =
                InsertRecursive(@, position, data, depth + 1, max_depth)]

\* Octree::insert
Insert(tree, position, data) ==
    [tree EXCEPT !.root = InsertRecursive(tree.root, position, data, 0, tree.max_depth)]

\* A version of sample_recursive whose level counts from the finest level and
\* which stops at that level whether or not the node holds a sample.
RECURSIVE SampleRecursiveStopAtLevel(_, _, _, _, _)
SampleRecursiveStopAtLevel(node, position, depth, min_level, max_depth) ==
    IF ~Contains(node, position) THEN [data |-> EmptyVoxel, depth |-> depth]
    ELSE IF depth >= max_depth - Min(min_level, max_depth) \/ node.children = NoChildren
    THEN [data |-> IF node.voxel_data.some THEN node.voxel_data.val ELSE EmptyVoxel,
          depth |-> depth]
    ELSE SampleRecursiveStopAtLevel(node.children[GetChildIndex(node, position) + 1],
                                    position, depth + 1, min_level, max_depth)

\* A version of sample_recursive without the bounds test.
RECURSIVE SampleRecursiveNoBoundsTest(_, _, _, _, _)
SampleRecursiveNoBoundsTest(node, position, depth, min_level, max_depth) ==
    IF depth >= Min(min_level, max_depth) /\ node.voxel_data.some
    THEN [data |-> node.voxel_data.val, depth |-> depth]
    ELSE IF node.children # NoChildren
    THEN SampleRecursiveNoBoundsTest(node.children[GetChildIndex(node, position) + 1],
                                     position, depth + 1, min_level, max_depth)
    ELSE [data |-> IF node.voxel_data.some THEN node.voxel_data.val ELSE EmptyVoxel,
          depth |-> depth]

\* Octree::sample_recursive; data is the VoxelData returned, depth the depth of
\* the node at which the recursion returns
RECURSIVE SampleRecursive(_, _, _, _, _)
SampleRecursive(node, position, depth, min_level, max_depth) ==
    IF ~Contains(node, position) THEN [data |-> EmptyVoxel, depth |-> depth]
    ELSE IF depth >= Min(min_level, max_depth) /\ node.voxel_data.some
    THEN [data |-> node.voxel_data.val, depth |-> depth]
    ELSE IF node.children # NoChildren
    THEN SampleRecursive(node.children[GetChildIndex(node, position) + 1],
                         position, depth + 1, min_level, max_depth)
    ELSE [data |-> IF node.voxel_data.some THEN node.voxel_data.val ELSE EmptyVoxel,
          depth |-> depth]

\* Octree::sample
Sample(tree, position, min_level) ==
    SampleRecursive(tree.root, position, 0, min_level, tree.max_depth).data

\* the depth at which Octree::sample resolves
SampleDepth(tree, position, min_level) ==
    SampleRecursive(tree.root, position, 0, min_level, tree.max_depth).depth

\* StaticOctreeProvider::get_bounds: <<min corner, max corner>> of the root cube
GetBounds(tree) ==
    <<[a \in 1 .. 3 |-> tree.root.center[a] - tree.root.half_size],
      [a \in 1 .. 3 |-> tree.root.center[a] + tree.root.half_size]>>

\* the position lies inside the root cube (faces included)
InRootCube(tree, position) ==
    \A a \in 1 .. 3 : /\ GetBounds(tree)[1][a] <= position[a]
                      /\ position[a] <= GetBounds(tree)[2][a]

\* the finest cell of a position: the child numbers on its way down to max_depth
RECURSIVE CellPath(_, _, _, _)
CellPath(center, half_size, position, levels) ==
    IF levels = 0 THEN <<>>
    ELSE LET node == OctreeNodeNew(center, half_size, 0)
             index == InsertChildIndex(node, position)
             child == Subdivide(node).children[index + 1]
         IN <<index>> \o CellPath(child.center, child.half_size, position, levels - 1)

SameCell(tree, p, q) ==
    CellPath(tree.root.center, tree.root.half_size, p, tree.max_depth)
        = CellPath(tree.root.center, tree.root.half_size, q, tree.max_depth)

\* all nodes of the tree below (and including) a node
RECURSIVE Nodes(_)
Nodes(node) ==
    IF node.children = NoChildren THEN {node}
    ELSE {node} \cup UNION { Nodes(node.children[k]) : k \in 1 .. 8 }

\* the node at which the descent of insert_recursive ends in the present tree
RECURSIVE InsertLeaf(_, _)
InsertLeaf(node, position) ==
    IF node.children = NoChildren THEN node
    ELSE InsertLeaf(node.children[InsertChildIndex(node, position) + 1], position)

\* positions of a node's cube: corners, edge and face midpoints, and centre
NodeProbes(node) ==
    LET offs == {0 - node.half_size, 0, node.half_size}
    IN { [a \in 1 .. 3 |-> node.center[a] + o[a]] : o \in [1 .. 3 -> offs] }

\* what an insert at position may do to a node: a node with children keeps
\* them, the seven children off the position's path with all they hold, the
\* eighth under the same rule
RECURSIVE ChildrenKept(_, _, _)
ChildrenKept(old, new, position) ==
    /\ new.center = old.center
    /\ new.half_size = old.half_size
    /\ new.level = old.level
    /\ old.children # NoChildren =>
          /\ new.children # NoChildren
          /\ new.voxel_data = old.voxel_data
          /\ LET index == InsertChildIndex(old, position)
             IN /\ \A k \in 1 .. 8 :
                      k # index + 1 => new.children[k] = old.children[k]
                /\ ChildrenKept(old.children[index + 1], new.children[index + 1],
                                position)

\* ------------------------------------------------------- octree inputs
\* positions passed to insert and sample: the centre, a face point, a corner and
\* its cell neighbour, the opposite corner, and three points outside the cube
InsidePositions ==
    { <<0, 0, 0>>,
      <<0, 0, 0 - RootHalf>>,
      <<0 - RootHalf, 0 - RootHalf, 0 - RootHalf>>,
      <<1 - RootHalf, 1 - RootHalf, 1 - RootHalf>>,
      <<RootHalf, RootHalf, RootHalf>> }
OutsidePositions ==
    { <<0, 0, 0 - RootHalf - 1>>,
      <<0 - RootHalf - 1, 0 - RootHalf - 1, 0 - RootHalf - 1>>,
      <<RootHalf + 1, RootHalf, RootHalf>> }
Positions == InsidePositions \cup OutsidePositions

\* samples passed to insert
Samples == { EmptyVoxel, EmissiveVoxel(<<100, 100, 95>>, <<500, 500, 475>>) }

\* min_level arguments of sample (a u8; beyond max_depth it is clamped)
Levels == 0 .. (MaxDepth + 1)

NoOp == [kind |-> "none", pos |-> RootCenter, data |-> EmptyVoxel,
         repeated |-> FALSE, changed |-> FALSE]

NoLodQuery == [asked |-> FALSE, pos |-> RootCenter, distance |-> 0, level |-> 0,
               data |-> EmptyVoxel, depth |-> 0]

OctInit ==
    /\ octree = OctreeNew(RootCenter, RootHalf, MaxDepth)
    /\ last_op = NoOp
    /\ lod_query = NoLodQuery
    /\ tracked \in InsidePositions
    /\ tracked_last = NoData
    /\ tracked_cell_last = NoData

InsertCall(position, data) ==
    LET after == Insert(octree, position, data)
    IN /\ octree' = after
       /\ last_op' = [kind |-> "insert", pos |-> position, data |-> data,
                      repeated |-> (/\ last_op.kind = "insert"
                                    /\ last_op.pos = position
                                    /\ last_op.data = data),
                      changed |-> (after # octree)]
       /\ tracked_last' = IF position = tracked THEN SomeData(data) ELSE tracked_last
       /\ tracked_cell_last' =
             IF InRootCube(octree, position) /\ SameCell(octree, position, tracked)
             THEN SomeData(data) ELSE tracked_cell_last
       /\ UNCHANGED <<tracked, lod_query>>

InsertAny == \E position \in Positions, data \in Samples : InsertCall(position, data)

\* Octree::sample takes &self: it returns the sample and leaves the index alone
SampleCall(position, min_level) ==
    /\ last_op' = [kind |-> "sample", pos |-> position,
                   data |-> Sample(octree, position, min_level),
                   repeated |-> FALSE, changed |-> FALSE]
    /\ UNCHANGED <<octree, tracked, tracked_last, tracked_cell_last, lod_query>>

SampleAny == \E position \in Positions, min_level \in Levels : SampleCall(position, min_level)

\* ------------------------------------------------------- sample_voxel
\* StaticOctreeProvider::sample_voxel: lod_level = floor(distance / 5.0) as u8,
\* sample(position, lod_level.min(max_depth)). Distances in whole units.

LodDistance == 5
MaxLodDistance == 16

\* "as u8" saturates
LodLevel(distance) ==
    IF distance < 0 THEN 0 ELSE Min(distance \div LodDistance, 255)

SampleVoxelResult(tree, position, distance) ==
    SampleRecursive(tree.root, position, 0,
                    Min(LodLevel(distance), tree.max_depth), tree.max_depth)

LodDistances == 0 .. MaxLodDistance

\* voxel_data is a public field: a node above max_depth given a direct sample
\* (insert never does this; sample_recursive tests for it at every depth)
RECURSIVE WithDirectSample(_, _, _)
WithDirectSample(node, path, data) ==
    IF path = <<>> THEN [node EXCEPT !.voxel_data = SomeData(data)]
    ELSE LET n == Subdivide(node)
         IN [n EXCEPT !.children[Head(path) + 1] = WithDirectSample(@, Tail(path), data)]

CoarseVoxel == SolidVoxel(<<50, 50, 50>>)
FineVoxel == EmissiveVoxel(<<100, 100, 95>>, <<500, 500, 475>>)

\* the index after inserts at the centre and at a corner
FineTree ==
    Insert(Insert(OctreeNew(RootCenter, RootHalf, MaxDepth), RootCenter, FineVoxel),
           <<RootHalf, RootHalf, RootHalf>>, FineVoxel)

\* trees looked up by sample_voxel: built by insert alone, and the same with a
\* direct sample on the root or on the level-1 node above the centre's cell
LodTrees ==
    { OctreeNew(RootCenter, RootHalf, MaxDepth),
      FineTree,
      [FineTree EXCEPT !.root = WithDirectSample(@, <<>>, CoarseVoxel)],
      [FineTree EXCEPT !.root = WithDirectSample(@, <<0>>, CoarseVoxel)] }

ProviderInit ==
    /\ octree \in LodTrees
    /\ last_op = NoOp
    /\ lod_query = NoLodQuery
    /\ tracked = RootCenter
    /\ tracked_last = NoData
    /\ tracked_cell_last = NoData

SampleVoxelCall(position, distance) ==
    LET r == SampleVoxelResult(octree, position, distance)
    IN /\ lod_query' = [asked |-> TRUE, pos |-> position, distance |-> distance,
                        level |-> Min(LodLevel(distance), octree.max_depth),
                        data |-> r.data, depth |-> r.depth]
       /\ UNCHANGED <<octree, last_op, tracked, tracked_last, tracked_cell_last>>

SampleVoxelAny ==
    \E position \in Positions, distance \in LodDistances : SampleVoxelCall(position, distance)

ProviderNext == SampleVoxelAny

OctNext == InsertAny

OctReadNext == InsertAny \/ SampleAny

\* ---------------------------------------------------------- specifications
\* the controller driven by update calls (the index is built and left alone)
----------------------------------------------------------------------------
\* OctreeProvider::get_step_size, the default implementation.
\* Step sizes in 1/StepScale, distances in whole units.

min_step == 50
max_step == 500

MaxDistance == 12

\* f32::clamp
Clamp(x, lo, hi) == IF x < lo THEN lo ELSE IF x > hi THEN hi ELSE x

\* A version whose factor shrinks with the distance.
GetStepSizeFalling(distance_from_camera, base_step_size) ==
    Clamp((base_step_size * (10 - distance_from_camera)) \div 10, min_step, max_step)

\* distance_factor = 1.0 + distance * 0.1 is (10 + distance) / 10
GetStepSize(distance_from_camera, base_step_size) ==
    Clamp((base_step_size * (10 + distance_from_camera)) \div 10, min_step, max_step)

Distances == (0 - MaxDistance) .. MaxDistance
BaseSteps == {1, 30, min_step, InitStep, max_step, 800}

NoQuery == [asked |-> FALSE, distance |-> 0, base |-> 0, result |-> 0]

LodInit == step_query = NoQuery /\ adjustments = 0

GetStepSizeCall(distance, base) ==
    /\ step_query' = [asked |-> TRUE, distance |-> distance, base |-> base,
                      result |-> GetStepSize(distance, base)]
    /\ UNCHANGED adjustments

LodNext == \E distance \in Distances, base \in BaseSteps : GetStepSizeCall(distance, base)

----------------------------------------------------------------------------
\* StaticOctreeProvider::new_cornell_box and build_cornell_box_scene.
\* Lengths in hundredths: resolution 0.02 is 2, so grid index g is position 2 g.

SceneHalf == 200
Resolution == 2
WallThickness == 5

Between(v, lo, hi) == v >= lo /\ v <= hi

\* Option<VoxelData> returned by sample_cornell_box_at
White == SolidVoxel(<<73, 73, 73>>)

\* the two rotated boxes: |offset.x cos_a -/+ offset.z sin_a| <= half.x and the
\* like for z, with cos_a = 0.956, sin_a = -0.292, in thousandths
InTallBox(pos) ==
    LET ox == pos[1] + 35
        oz == pos[3] - 65
    IN /\ Abs(ox * 956 + oz * 292) <= 15 * 1000
       /\ Between(pos[2], 0, 60)
       /\ Abs(oz * 956 - ox * 292) <= 15 * 1000

InShortBox(pos) ==
    LET ox == pos[1] - 35
        oz == pos[3] - 135
    IN /\ Abs(ox * 956 - oz * 292) <= 15 * 1000
       /\ Between(pos[2], 0, 30)
       /\ Abs(ox * 292 + oz * 956) <= 15 * 1000

\* StaticOctreeProvider::sample_cornell_box_at
SampleCornellBoxAt(pos) ==
    LET x == pos[1]
        y == pos[2]
        z == pos[3]
        inner == Between(x, 0 - 100, 100) /\ Between(z, 0, 200)
    IN IF Between(y, 0 - WallThickness, WallThickness) /\ inner
       THEN SomeData(White)
       ELSE IF Between(y, 200 - WallThickness, 200 + WallThickness) /\ inner
       THEN IF Between(x, 0 - 25, 25) /\ Between(z, 75, 125)
            THEN SomeData(EmissiveVoxel(<<100, 100, 95>>, <<500, 500, 475>>))
            ELSE SomeData(White)
       ELSE IF /\ Between(z, 200 - WallThickness, 200 + WallThickness)
               /\ Between(x, 0 - 100 - WallThickness, 100 + WallThickness)
               /\ Between(y, 0 - WallThickness, 200 + WallThickness)
       THEN SomeData(White)
       ELSE IF /\ Between(x, 0 - 100 - WallThickness, 0 - 100 + WallThickness)
               /\ Between(z, 0, 200) /\ Between(y, 0, 200)
       THEN SomeData(SolidVoxel(<<65, 5, 5>>))
       ELSE IF /\ Between(x, 100 - WallThickness, 100 + WallThickness)
               /\ Between(z, 0, 200) /\ Between(y, 0, 200)
       THEN SomeData(SolidVoxel(<<12, 45, 15>>))
       ELSE IF InTallBox(pos) THEN SomeData(White)
       ELSE IF InShortBox(pos) THEN SomeData(White)
       ELSE NoData

\* grid indices visited by the three loops (x in -60..=60, y and z in -10..=110):
\* the ends of each range, the walls, and the indices around 100
GridX == {0 - 60, 0 - 50, 0, 60}
GridY == {0 - 10, 0, 50, 100, 101, 102, 110}
GridZ == {0 - 10, 50, 100, 102}

MaxVoxels == 2

NoSceneStep == [visited |-> FALSE, pos |-> RootCenter, voxel |-> NoData]

SceneInit ==
    /\ scene_step = NoSceneStep
    /\ voxel_count = 0

\* let mut octree = Octree::new(center, 2.0, max_depth)
SceneOctreeInit ==
    /\ octree = OctreeNew(RootCenter, SceneHalf, MaxDepth)
    /\ last_op = NoOp
    /\ lod_query = NoLodQuery
    /\ tracked = RootCenter
    /\ tracked_last = NoData
    /\ tracked_cell_last = NoData

\* the body of the innermost loop at grid point (x, y, z)
BuildStep(x, y, z) ==
    LET pos == <<x * Resolution, y * Resolution, z * Resolution>>
        voxel == SampleCornellBoxAt(pos)
    IN /\ voxel_count < MaxVoxels
       /\ scene_step' = [visited |-> TRUE, pos |-> pos, voxel |-> voxel]
       /\ octree' = IF voxel.some THEN Insert(octree, pos, voxel.val) ELSE octree
       /\ voxel_count' = IF voxel.some THEN voxel_count + 1 ELSE voxel_count
       /\ UNCHANGED <<last_op, tracked, tracked_last, tracked_cell_last, lod_query>>

BuildAny == \E x \in GridX, y \in GridY, z \in GridZ : BuildStep(x, y, z)

SceneNext == BuildAny

----------------------------------------------------------------------------
\* VoxelRenderer: the performance uniform and the render call.

RendererTarget == 20
MaxFrames == 6
MaxSurfaceErrors == 2

\* PerformanceData { base_voxel_size: 1.0, frame_time: 0.016 }
InitialPerformanceData ==
    [base_voxel_size |-> StepScale, frame_time |-> (16 * TicksPerSecond) \div 1000]

RendererInit ==
    /\ performance_buffer = InitialPerformanceData
    /\ frame_count = 0
    /\ surface_errors = 0

\* A version that writes the uniform on every frame.
BufferAfterEveryFrame(r, buf, delta_time) ==
    [base_voxel_size |-> IF r.some THEN r.val ELSE buf.base_voxel_size,
     frame_time |-> delta_time]

\* The uniform after the "if let Some(new_voxel_size)" block of render
BufferAfter(r, buf, delta_time) ==
    IF r.some THEN [base_voxel_size |-> r.val, frame_time |-> delta_time]
    ELSE buf

\* One render call: update the controller, write the uniform on Some, then
\* either return at the surface error or dispatch, present and count the frame.
Render(delta_time, surface_ok) ==
    /\ frame_count < MaxFrames
    /\ surface_ok \/ surface_errors < MaxSurfaceErrors
    /\ Update(delta_time)
    /\ performance_buffer' = BufferAfter(ret', performance_buffer, delta_time)
    /\ frame_count' = IF surface_ok THEN frame_count + 1 ELSE frame_count
    /\ surface_errors' = IF surface_ok THEN surface_errors ELSE surface_errors + 1

RenderCall ==
    \E delta_time \in FrameTimes(target_framerate), surface_ok \in BOOLEAN :
        Render(delta_time, surface_ok)

RndNext == RenderCall

----------------------------------------------------------------------------
InitCtl == CtlInit /\ OctInit /\ tracked = RootCenter /\ RendererInit /\ LodInit /\ SceneInit
NextCtl == CtlNext /\ UNCHANGED <<octVars, rndVars, lodVars, sceneVars>>
SpecCtl == InitCtl /\ [][NextCtl]_vars

\* the controller fed slow frames only; the render loop calls update on every
\* frame for as long as the program runs
NextCtlSlow == CtlSlowNext /\ UNCHANGED <<octVars, rndVars, lodVars, sceneVars>>
SpecCtlSlow == InitCtl /\ [][NextCtlSlow]_vars /\ WF_vars(NextCtlSlow)

\* the controller fed fast frames after a few arbitrary ones
NextCtlFast == CtlFastNext /\ UNCHANGED <<octVars, rndVars, lodVars, sceneVars>>
SpecCtlFast == InitCtl /\ [][NextCtlFast]_vars /\ WF_vars(NextCtlFast)

\* the controller fed frame times near the target
InitCtlNearTarget == InitCtl /\ target_framerate = RendererTarget
NextCtlNearTarget == CtlNearTargetNext /\ UNCHANGED <<octVars, rndVars, step_query, sceneVars>>
SpecCtlNearTarget == InitCtlNearTarget /\ [][NextCtlNearTarget]_vars

\* the index driven by insert calls (the controller is built and left alone)
InitOct == OctInit /\ CtlInit /\ target_framerate = 20 /\ RendererInit /\ LodInit /\ SceneInit
NextOct == OctNext /\ UNCHANGED <<ctlVars, rndVars, lodVars, sceneVars>>
SpecOct == InitOct /\ [][NextOct]_vars

\* the index driven by insert and sample calls
NextOctRead == OctReadNext /\ UNCHANGED <<ctlVars, rndVars, lodVars, sceneVars>>
SpecOctRead == InitOct /\ [][NextOctRead]_vars

\* sample_voxel called on a provider whose index is one of LodTrees
InitLod == ProviderInit /\ CtlInit /\ target_framerate = 20 /\ RendererInit /\ LodInit /\ SceneInit
NextLod == ProviderNext /\ UNCHANGED <<ctlVars, rndVars, lodVars, sceneVars>>
SpecLod == InitLod /\ [][NextLod]_vars

\* the scene built into a fresh index
InitScene == SceneOctreeInit /\ SceneInit /\ CtlInit /\ target_framerate = 20
             /\ RendererInit /\ LodInit
NextScene == SceneNext /\ UNCHANGED <<ctlVars, rndVars, lodVars>>
SpecScene == InitScene /\ [][NextScene]_vars

\* the renderer driven by render calls; its controller is built with 20.0
InitRender == InitCtl /\ target_framerate = RendererTarget
NextRender == RndNext /\ UNCHANGED <<octVars, lodVars, sceneVars>>
SpecRender == InitRender /\ [][NextRender]_vars

\* get_step_size called on a provider
InitStepSize == InitOct
NextStepSize == LodNext /\ UNCHANGED <<ctlVars, octVars, rndVars, sceneVars>>
SpecStepSize == InitStepSize /\ [][NextStepSize]_vars

\* ------------------------------------------------------------ controller claims
LastFrame(h) == h[Len(h)]

\* the frame time implies an instantaneous rate exactly 50% below the target
HalfBelowTarget(T, ft) == 2 * TicksPerSecond = T * ft

\* C1: after every update call the current step size is within [0.005, 0.05]
\* (for every target frame rate > 0 and positive frame times).
C1_StepSizeWithinBounds ==
    branch # "new" => (MinStep <= current_voxel_size /\ current_voxel_size <= MaxStep)

\* The last call had at least 2 frame times in the window before it and its
\* frame time implies a rate 50% below target.
C2_EmergencyCallDone ==
    /\ branch # "new"
    /\ Len(frame_time_history) >= MinSamples
    /\ HalfBelowTarget(target_framerate, LastFrame(frame_time_history))

C3_DecreasePerformed ==
    /\ ret.some
    /\ last_adjustment_direction = DirDecrease

\* C3: no update call performs a Decrease adjustment when stable_frames at the
\* start of the call is <= 15, also when the average rate is above 1.2 x target.
C3_StabilityGating ==
    C3_DecreasePerformed => (pre.stable > StableGate /\ branch = "decrease")

C3_Witness ==
    /\ C3_DecreasePerformed
    /\ current_voxel_size < pre.step
    /\ pre.stable = StableGate + 1

\* C4: the first and second update calls return None for every frame time and
\* leave step size, direction and stable_frames untouched; the decision logic
\* is first applied on the third call.
C4_WarmUp ==
    /\ Len(frame_time_history) \in 1 .. (MinSamples - 1) =>
          /\ ret = NoneRet
          /\ branch = "insufficient"
          /\ current_voxel_size = InitStep
          /\ last_adjustment_direction = DirNone
          /\ stable_frames = 0
    /\ Len(frame_time_history) >= MinSamples =>
          /\ branch \in Adjusting \cup {"stable"}
          /\ (ret.some \/ stable_frames = pre.stable + 1)

C4_Witness ==
    /\ Len(frame_time_history) = MinSamples - 1
    /\ IsEmergency(target_framerate, frame_time_history[1])
    /\ IsEmergency(target_framerate, frame_time_history[2])
    /\ ret = NoneRet
    /\ current_voxel_size = InitStep

\* C5: update returns Some(v) exactly on the calls that take an adjusting branch,
\* with v the step size stored after the call (also when clamping leaves it
\* equal to the step size before the call); on a call that returns None the
\* step size and the direction are unchanged.
C5_ReturnSignalsAdjustment ==
    branch # "new" =>
        /\ ret.some <=> branch \in Adjusting
        /\ ret.some => (ret.val = current_voxel_size /\ stable_frames = 0
                        /\ last_adjustment_direction # DirNone)
        /\ ~ret.some => (current_voxel_size = pre.step
                         /\ last_adjustment_direction = pre.dir)

C5_Witness ==
    /\ ret.some
    /\ ret.val = pre.step
    /\ pre.step = MaxStep

\* ---------------------------------------------------------------- index claims
\* C6 (as stated): sample(p, L) returns the empty sample if and only if p lies
\* outside the root cube, for every index state reachable by inserts and every L.
C6_EmptyIffOutside ==
    \A p \in Positions, L \in Levels :
        (Sample(octree, p, L) = EmptyVoxel) <=> ~InRootCube(octree, p)

\* C6 (amended): sample(p, L) returns the empty sample whenever p lies outside the
\* root cube, for every L; a position inside the root cube returns the empty
\* sample as well while no insert has reached its cell, and returns a non-empty
\* sample right after a non-empty sample was inserted at it.
C6_EmptyOutside ==
    /\ \A p \in Positions, L \in Levels :
          ~InRootCube(octree, p) => Sample(octree, p, L) = EmptyVoxel
    /\ \A p \in Positions, L \in Levels :
          (InRootCube(octree, p) /\ last_op.kind = "none") =>
              Sample(octree, p, L) = EmptyVoxel
    /\ \A L \in Levels :
          (/\ last_op.kind = "insert"
           /\ InRootCube(octree, last_op.pos)
           /\ last_op.data # EmptyVoxel) =>
              Sample(octree, last_op.pos, L) # EmptyVoxel

\* a non-empty sample was stored in the cell an outside position would be routed to
C6_Witness ==
    /\ last_op.kind = "insert"
    /\ last_op.pos = <<0, 0, 0 - RootHalf>>
    /\ last_op.data # EmptyVoxel
    /\ Sample(octree, <<0, 0, 0 - RootHalf>>, MaxDepth) # EmptyVoxel
    /\ Sample(octree, <<0, 0, 0 - RootHalf - 1>>, MaxDepth) = EmptyVoxel

\* C7: inserting the same (position, sample) pair twice in a row leaves the index
\* in exactly the state reached by inserting it once.
C7_InsertIdempotent ==
    /\ \A p \in Positions, d \in Samples :
          Insert(Insert(octree, p, d), p, d) = Insert(octree, p, d)
    /\ last_op.repeated => ~last_op.changed

C7_Witness ==
    /\ last_op.kind = "insert"
    /\ last_op.repeated
    /\ InRootCube(octree, last_op.pos)
    /\ last_op.data # EmptyVoxel
    /\ ~last_op.changed
    /\ Sample(octree, last_op.pos, MaxDepth) = last_op.data

\* C8 (as stated): for every position inside the root cube that was inserted at
\* least once, sample(p, max_depth) returns the sample of the most recent insert
\* at p.
C8_ReadsLastInsertAtPosition ==
    (InRootCube(octree, tracked) /\ tracked_last.some) =>
        Sample(octree, tracked, octree.max_depth) = tracked_last.val

\* C8 (amended): for every position p inside the root cube that was inserted at
\* least once, sample(p, max_depth) returns the sample of the most recent insert
\* whose position lies in the same depth-max_depth cell as p; that is the most
\* recent insert at p unless a later insert hit another position of the cell.
C8_ReadsLastInsertInCell ==
    (InRootCube(octree, tracked) /\ tracked_last.some) =>
        /\ tracked_cell_last.some
        /\ Sample(octree, tracked, octree.max_depth) = tracked_cell_last.val
        /\ (last_op.kind = "insert" /\ last_op.pos = tracked =>
               Sample(octree, tracked, octree.max_depth) = tracked_last.val)

C8_Witness ==
    /\ InRootCube(octree, tracked)
    /\ tracked_last.some
    /\ tracked_cell_last.val # tracked_last.val
    /\ Sample(octree, tracked, octree.max_depth) = tracked_cell_last.val

\* C9: for a fixed position and index state, L1 < L2 implies that sample(p, L1)
\* resolves at a depth <= the depth at which sample(p, L2) resolves; and every
\* L >= max_depth yields the same result (in particular after a single insert
\* at the position).
C9_LodMonotone ==
    /\ \A p \in Positions, L1 \in Levels, L2 \in Levels :
          L1 < L2 => SampleDepth(octree, p, L1) <= SampleDepth(octree, p, L2)
    /\ \A p \in Positions, L \in Levels :
          L >= octree.max_depth =>
              Sample(octree, p, L) = Sample(octree, p, octree.max_depth)
    /\ \A L \in Levels :
          (last_op.kind = "insert" /\ InRootCube(octree, last_op.pos)) =>
              SampleDepth(octree, last_op.pos, L) = octree.max_depth

C9_Witness ==
    /\ last_op.kind = "insert"
    /\ InRootCube(octree, last_op.pos)
    /\ last_op.data # EmptyVoxel
    /\ SampleDepth(octree, last_op.pos, 0) = MaxDepth
    /\ SampleDepth(octree, last_op.pos, MaxDepth + 1) = MaxDepth
    /\ Sample(octree, last_op.pos, MaxDepth + 1) = last_op.data

\* C10: an insert whose position lies outside the root cube leaves the whole
\* index unchanged.
C10_OutsideInsertNoOp ==
    /\ \A p \in Positions, d \in Samples :
          ~InRootCube(octree, p) => Insert(octree, p, d) = octree
    /\ (last_op.kind = "insert" /\ ~InRootCube(octree, last_op.pos)) => ~last_op.changed

C10_Witness ==
    /\ last_op.kind = "insert"
    /\ ~InRootCube(octree, last_op.pos)
    /\ ~last_op.changed
    /\ octree.root.children # NoChildren
    /\ tracked_cell_last.some

\* in this state every sample outside the box of get_bounds is the empty sample
C11_OutsideSampleState ==
    /\ \A p \in Positions, L \in Levels :
          (\E a \in 1 .. 3 : p[a] < GetBounds(octree)[1][a] \/ p[a] > GetBounds(octree)[2][a])
             => LET v == Sample(octree, p, L)
                IN /\ v.density = 0
                   /\ v.color = <<0, 0, 0>>
                   /\ v.emission = <<0, 0, 0>>
                   /\ v.material_type = 0
    /\ (last_op.kind = "sample" /\ ~InRootCube(octree, last_op.pos)) =>
          (last_op.data = EmptyVoxel /\ ~last_op.changed)

\* C11: for every index state and every min_level, sample of a position outside
\* the box returned by get_bounds returns the empty sample (density 0, black, no
\* emission, Diffuse) and does not modify the index.
C11_OutsideSampleEmpty ==
    /\ []C11_OutsideSampleState
    /\ [][last_op'.kind = "sample" => octree' = octree]_vars

C11_Witness ==
    /\ last_op.kind = "sample"
    /\ last_op.pos = <<0, 0, 0 - RootHalf - 1>>
    /\ last_op.data = EmptyVoxel
    /\ Sample(octree, <<0, 0, 0 - RootHalf>>, MaxDepth) # EmptyVoxel

\* C12: after any sequence of insert calls, for every position p inside the root
\* cube, sample(p, max_depth) returns the sample of the most recent insert whose
\* position fell into the same depth-max_depth cell as p, and the empty sample
\* when no insert ever targeted that cell.
C12_CellLastWriteOrEmpty ==
    InRootCube(octree, tracked) =>
        Sample(octree, tracked, octree.max_depth)
            = (IF tracked_cell_last.some THEN tracked_cell_last.val ELSE EmptyVoxel)

\* the cell of the tracked position was written through a neighbour only
C12_Witness ==
    /\ InRootCube(octree, tracked)
    /\ ~tracked_last.some
    /\ tracked_cell_last.some
    /\ tracked_cell_last.val # EmptyVoxel
    /\ Sample(octree, tracked, octree.max_depth) = tracked_cell_last.val
    /\ \E q \in InsidePositions : /\ ~SameCell(octree, q, tracked)
                                  /\ Sample(octree, q, octree.max_depth) = EmptyVoxel
                                  /\ SampleDepth(octree, q, octree.max_depth) < octree.max_depth

\* one update call pushes its frame time at the back of the window and evicts
\* exactly the oldest entry when the window already held history_size entries
C13_PushStep ==
    LET n == Len(frame_time_history)
        shift == IF n = HistorySize THEN 1 ELSE 0
    IN /\ Len(frame_time_history') = Min(n + 1, HistorySize)
       /\ \A i \in 1 .. (Len(frame_time_history') - 1) :
             frame_time_history'[i] = frame_time_history[i + shift]
       /\ LastFrame(frame_time_history') \in FrameTimes(target_framerate)

\* C13: after every update call the window holds at most 10 entries, the frame
\* times of the most recent min(n, 10) calls in call order; an 11th value evicts
\* exactly the oldest entry.
C13_WindowIsLastTen ==
    /\ [](Len(frame_time_history) <= HistorySize)
    /\ [](branch # "new" => Len(frame_time_history) = Min(pre.len + 1, HistorySize))
    /\ [][C13_PushStep]_frame_time_history

C13_Witness ==
    /\ pre.len = HistorySize
    /\ Len(frame_time_history) = HistorySize
    /\ frame_time_history[1] # frame_time_history[HistorySize]
    /\ frame_time_history[HistorySize - 1] # frame_time_history[HistorySize]

\* C16: with at least 3 samples in the window, whenever the current frame's rate
\* is below 0.95 x target, update takes the emergency branch whatever the window
\* average and stable_frames are: direction Increase, stable_frames 0, Some.
C16_EmergencyPreempts ==
    (/\ branch # "new"
     /\ Len(frame_time_history) >= MinSamples
     /\ IsEmergency(target_framerate, LastFrame(frame_time_history))) =>
        /\ branch = "emergency"
        /\ last_adjustment_direction = DirIncrease
        /\ stable_frames = 0
        /\ ret = SomeRet(current_voxel_size)
        /\ current_voxel_size
             = EmergencyStep(pre.step, target_framerate, LastFrame(frame_time_history))

\* a slow frame after a long stable run, the window average still above 1.2 x target
C16_Witness ==
    /\ branch = "emergency"
    /\ IsEmergency(target_framerate, LastFrame(frame_time_history))
    /\ AvgWellAbove(target_framerate, frame_time_history)
    /\ pre.stable > StableGate
    /\ last_adjustment_direction = DirIncrease
    /\ ret.some

\* C18 (as stated): stable_frames equals the number of consecutive most recent
\* update calls that returned no change.
C18_StableCountsNoChangeCalls ==
    stable_frames = none_run

\* C18 (amended): stable_frames equals the number of consecutive most recent
\* update calls that returned no change with at least 3 samples in the window:
\* the first two calls on a fresh controller return no change and are not counted.
C18_StableCountsStableCalls ==
    /\ stable_frames
         = none_run - (IF last_adjustment_direction = DirNone
                       THEN Min(Len(frame_time_history), MinSamples - 1) ELSE 0)
    /\ ret.some => (stable_frames = 0 /\ none_run = 0)
    /\ branch = "stable" => (stable_frames = pre.stable + 1 /\ ~ret.some)
    /\ branch = "insufficient" => (stable_frames = 0 /\ none_run = Len(frame_time_history))

C18_Witness ==
    /\ branch = "stable"
    /\ last_adjustment_direction = DirNone
    /\ stable_frames = DampFrames
    /\ none_run = DampFrames + 2

\* C14: a render call writes the performance uniform with the value v (and the
\* frame's delta time) exactly when the controller's update returned Some(v),
\* and leaves the uniform unchanged when update returned None, whether or not
\* the frame is then presented.
C14_RenderStep ==
    /\ ret'.some => performance_buffer'
                      = [base_voxel_size |-> ret'.val,
                         frame_time |-> LastFrame(frame_time_history')]
    /\ ret'.some => performance_buffer'.base_voxel_size = current_voxel_size'
    /\ ~ret'.some => performance_buffer' = performance_buffer

C14_UniformWrittenOnSome ==
    [][C14_RenderStep]_vars

\* a frame with Some after frames with None, dropped at the surface error
C14_Witness ==
    /\ ret.some
    /\ performance_buffer.base_voxel_size = ret.val
    /\ performance_buffer.base_voxel_size # StepScale
    /\ performance_buffer.frame_time = LastFrame(frame_time_history)
    /\ surface_errors > 0
    /\ frame_count > 0

\* C15: get_step_size(distance, base) is base x (1 + 0.1 x distance) clamped to
\* [0.005, 0.05]: the result is within the bounds and, for a fixed positive
\* base, no larger distance gives a smaller result.
C15_StepSizeClampedMonotone ==
    /\ \A d \in Distances, b \in BaseSteps :
          /\ GetStepSize(d, b) >= min_step
          /\ GetStepSize(d, b) <= max_step
          /\ (b * (10 + d) >= 10 * min_step /\ b * (10 + d) <= 10 * max_step)
                => GetStepSize(d, b) = (b * (10 + d)) \div 10
          /\ \A d2 \in Distances : d2 >= d => GetStepSize(d2, b) >= GetStepSize(d, b)
    /\ step_query.asked =>
          /\ step_query.result >= min_step
          /\ step_query.result <= max_step
          /\ \A d2 \in Distances :
                d2 >= step_query.distance
                   => GetStepSize(d2, step_query.base) >= step_query.result

\* a call whose result lies strictly between the bounds and grows with distance
C15_Witness ==
    /\ step_query.asked
    /\ step_query.base = InitStep
    /\ step_query.distance = 5
    /\ step_query.result = 300
    /\ GetStepSize(0 - MaxDistance, InitStep) = min_step
    /\ GetStepSize(MaxDistance, 800) = max_step

\* C17: in the below-target branch the new step size is min(old x f, 0.05) with
\* f = 1 + 0.1 x a after a Decrease and f = 1 + 0.3 x a otherwise, a = 0.5 when
\* stable_frames < 10 and 1.0 otherwise; direction becomes Increase and
\* stable_frames becomes 0. The branch is taken exactly when there are at least
\* 3 samples, no emergency, and the average rate is below the target.
C17_IncreasePercent ==
    IF pre.dir = DirDecrease
    THEN (IF pre.stable < 10 THEN 105 ELSE 110)
    ELSE (IF pre.stable < 10 THEN 115 ELSE 130)

C17_BelowTargetIncrease ==
    /\ branch = "increase" =>
          /\ current_voxel_size = Min((pre.step * C17_IncreasePercent) \div 100, 500)
          /\ last_adjustment_direction = DirIncrease
          /\ stable_frames = 0
          /\ ret = SomeRet(current_voxel_size)
    /\ branch # "new" =>
          (branch = "increase" <=>
             /\ Len(frame_time_history) >= MinSamples
             /\ ~IsEmergency(target_framerate, LastFrame(frame_time_history))
             /\ AvgBelowTarget(target_framerate, frame_time_history))

\* the smaller increment at full adjustment factor, not cut by the upper bound
C17_Witness ==
    /\ branch = "increase"
    /\ pre.dir = DirDecrease
    /\ pre.stable >= DampFrames
    /\ current_voxel_size = (pre.step * 110) \div 100
    /\ current_voxel_size < MaxStep

\* C19: for every subdivided node and every position the node contains, the
\* child selected by the 3-bit index (bit set iff the coordinate is strictly
\* greater than the centre) contains the position; so an insert at a position
\* inside the root cube, boundary and centre-plane positions included, ends at
\* a node of depth max_depth and stores its sample there.
C19_SelectedChildContains ==
    /\ \A node \in Nodes(octree.root) :
          node.children # NoChildren =>
             \A p \in NodeProbes(node) \cup Positions :
                Contains(node, p) =>
                   /\ Contains(node.children[InsertChildIndex(node, p) + 1], p)
                   /\ Contains(node.children[GetChildIndex(node, p) + 1], p)
                   /\ \A a \in 1 .. 3 :
                         Bit(GetChildIndex(node, p), a - 1) = 1 <=> p[a] > node.center[a]
    /\ (last_op.kind = "insert" /\ InRootCube(octree, last_op.pos)) =>
          LET leaf == InsertLeaf(octree.root, last_op.pos)
          IN /\ leaf.level = octree.max_depth
             /\ Contains(leaf, last_op.pos)
             /\ leaf.voxel_data = SomeData(last_op.data)

\* inserts at the centre (on all three centre planes) and at a corner, both stored
C19_Witness ==
    /\ last_op.kind = "insert"
    /\ last_op.pos = RootCenter
    /\ InsertLeaf(octree.root, RootCenter).level = MaxDepth
    /\ InsertLeaf(octree.root, RootCenter).voxel_data = SomeData(last_op.data)
    /\ InsertLeaf(octree.root, <<RootHalf, RootHalf, RootHalf>>).voxel_data.some

\* C20: after any sequence of inserts on an index with maximum depth D, every
\* node has level <= D, each child has its parent's level + 1 and half its
\* parent's half-size, a node holds a sample only if its level is D, and no node
\* at level D has children.
C20_TreeShape ==
    /\ octree.max_depth = MaxDepth
    /\ octree.root.level = 0
    /\ \A node \in Nodes(octree.root) :
          /\ node.level <= octree.max_depth
          /\ node.voxel_data.some => node.level = octree.max_depth
          /\ node.level = octree.max_depth => node.children = NoChildren
          /\ node.children # NoChildren =>
                \A k \in 1 .. 8 :
                   /\ node.children[k].level = node.level + 1
                   /\ 2 * node.children[k].half_size = node.half_size

\* two stored samples in different subtrees of the root
C20_Witness ==
    /\ octree.root.children # NoChildren
    /\ \E n1, n2 \in Nodes(octree.root) :
          /\ n1.voxel_data.some /\ n2.voxel_data.some
          /\ n1.level = MaxDepth /\ n2.level = MaxDepth
          /\ n1.center # n2.center
    /\ \E n \in Nodes(octree.root) : n.level = 1 /\ n.children = NoChildren

\* C21: a node that has children keeps the same 8 children across every later
\* insert and sample: subdividing an already-subdivided node changes nothing
\* (children, subtrees and stored samples are kept), a node without children
\* gets them by subdivide, and no operation makes children absent again.
C21_SubdivideIdempotent ==
    \A node \in Nodes(octree.root) :
       IF node.children # NoChildren
       THEN Subdivide(node) = node
       ELSE LET n == Subdivide(node)
            IN n.children # NoChildren /\ Subdivide(n) = n

C21_ChildrenPersist ==
    /\ []C21_SubdivideIdempotent
    /\ [][/\ octree' # octree => ChildrenKept(octree.root, octree'.root, last_op'.pos)
          /\ last_op'.kind = "sample" => octree' = octree]_vars

\* an insert has gone through nodes subdivided by earlier inserts: a level-1
\* node holds samples under two of its children
C21_Witness ==
    /\ last_op.kind = "insert"
    /\ last_op.changed
    /\ \E node \in Nodes(octree.root) :
          /\ node.level = 1
          /\ node.children # NoChildren
          /\ \E j, k \in 1 .. 8 :
                /\ j # k
                /\ node.children[j].voxel_data.some
                /\ node.children[k].voxel_data = SomeData(last_op.data)
                /\ Contains(node.children[k], last_op.pos)

C23_SceneInsideRoot ==
    (scene_step.visited /\ scene_step.voxel.some) =>
        /\ InRootCube(octree, scene_step.pos)
        /\ Sample(octree, scene_step.pos, octree.max_depth) = scene_step.voxel.val

\* C24 (as stated): every render call that updates the controller also submits
\* and presents that frame (frame_count advances), also when acquiring the
\* surface texture fails.
C24_UpdateThenPresent ==
    [][frame_time_history' # frame_time_history => frame_count' = frame_count + 1]_vars

\* C25 (as stated): in every state from renderer construction onward the
\* uniform's base_voxel_size equals the controller's current step size and lies
\* within [0.005, 0.05].
C25_UniformIsControllerStep ==
    /\ performance_buffer.base_voxel_size = current_voxel_size
    /\ performance_buffer.base_voxel_size >= MinStep
    /\ performance_buffer.base_voxel_size <= MaxStep

\* C26: every Decrease multiplies the step size by exactly 0.9 and then clamps
\* to >= 0.005: the decrease branch needs stable_frames > 15, so the factor 0.5
\* used below 10 stable frames never applies and x 0.95 does not occur.
C26_DecreaseByTenth ==
    branch = "decrease" =>
        /\ pre.stable > 15
        /\ pre.stable >= 10
        /\ current_voxel_size = Max((pre.step * 9) \div 10, 50)
        /\ (pre.step * 95) \div 100 > 50 => current_voxel_size # (pre.step * 95) \div 100
        /\ last_adjustment_direction = DirDecrease
        /\ ret = SomeRet(current_voxel_size)

C26_Witness ==
    /\ branch = "decrease"
    /\ pre.step = InitStep
    /\ current_voxel_size = 180
    /\ ret.some

\* C27: each call that performs a Decrease is immediately preceded by at least
\* 16 consecutive calls that returned no change; so an adjustment and a later
\* Decrease are at least 17 calls apart, and on a fresh controller (the Decrease
\* is the first adjustment, all calls before it returned no change) at least 18
\* calls come first: no Decrease before the 19th call.
C27_DecreaseAfterSixteenQuiet ==
    branch = "decrease" =>
        /\ pre.none_run >= 16
        /\ pre.dir = DirNone => pre.none_run >= 18
        /\ adjustments = 1 => pre.none_run >= 18

\* a Decrease exactly 17 calls after an increase
C27_Witness ==
    /\ branch = "decrease"
    /\ pre.none_run = 16
    /\ pre.dir = DirIncrease
    /\ adjustments = 2

\* C28: the direction is None exactly as long as no call has adjusted; after
\* the first adjustment it is never None and equals the direction of the most
\* recent adjustment for any number of stable frames; so an increase gets the
\* reduced increment whenever the most recent adjustment was a Decrease.
C28_DirectionStep ==
    /\ branch' \in {"emergency", "increase"} => last_adjustment_direction' = DirIncrease
    /\ branch' = "decrease" => last_adjustment_direction' = DirDecrease
    /\ branch' \in {"stable", "insufficient"}
          => last_adjustment_direction' = last_adjustment_direction
    /\ (branch' = "increase" /\ last_adjustment_direction = DirDecrease)
          => current_voxel_size'
               = Min((current_voxel_size
                        * (IF stable_frames < 10 THEN 105 ELSE 110)) \div 100, 500)

C28_DirectionIsLastAdjustment ==
    /\ [](last_adjustment_direction = DirNone <=> adjustments = 0)
    /\ [](last_adjustment_direction \in {DirDecrease, DirNone, DirIncrease})
    /\ [][C28_DirectionStep]_vars

\* the reduced increment many stable frames after the Decrease
C28_Witness ==
    /\ branch = "increase"
    /\ pre.dir = DirDecrease
    /\ pre.stable > DampFrames
    /\ pre.none_run = pre.stable
    /\ current_voxel_size < (pre.step * 115) \div 100
    /\ current_voxel_size > pre.step
    /\ adjustments > 1

\* C29 (as stated): for every target frame rate, when every frame is slower
\* than 0.95 x target the step size eventually reaches the maximum 0.05 and
\* stays there.
C29_SlowReachesMax ==
    <>[](current_voxel_size = MaxStep)

\* C30: when from some call on every frame is fast, Decrease adjustments keep
\* occurring and the step size eventually reaches the minimum 0.005 and stays
\* there.
C30_FastReachesMin ==
    /\ []<>(branch = "decrease" /\ ret.some)
    /\ <>[](current_voxel_size = MinStep)

\* a Decrease at the minimum: the step stays at 0.005 and is returned again
C30_Witness ==
    /\ branch = "decrease"
    /\ pre.step = MinStep
    /\ current_voxel_size = MinStep
    /\ ret = SomeRet(MinStep)
    /\ AvgWellAbove(target_framerate, frame_time_history)

====
